---- MODULE Spec2Model ----
(***************************************************************************)
(* A model of foggle-redux (src/src/foggle/index.js): the FoggleConfig     *)
(* option holder, the _FoggleProvider polling timer, the redux store slice *)
(* that holds the fetched features, and the two query surfaces             *)
(* (FoggleConsumer and withFoggle) that decide whether a feature is shown. *)
(*                                                                         *)
(* JavaScript values are modelled by what the code does with them:         *)
(*  - an interval argument is a record [t, k, v]: t is typeof, k the kind  *)
(*    of number or string, v the numeric value when there is one;          *)
(*  - an object is a function from its own property names to values, and a *)
(*    read of a missing property gives undefined;                          *)
(*  - a date is the integer getTime() gives;                               *)
(*  - a reference to a headers object is a record [live, headers]: live    *)
(*    says that it is the very object defaultOptions.headers names, and    *)
(*    headers is what the object holds now.                                *)
(* ./state/reducer and ./state/actions are imported by index.js but are    *)
(* not part of the sources at hand; they are modelled from the             *)
(* specification (CheckFeatures, FetchSuccess, FetchFailure, Reducer).     *)
(***************************************************************************)
EXTENDS Integers, Sequences, FiniteSets, TLC

VARIABLES
    options,      \* FoggleConfig's closure variable defaultOptions
    store,        \* state of the redux store created by FoggleProvider
    now,          \* the wall clock, what new Date() reads
    mounted,      \* componentDidMount of _FoggleProvider has run
    timerDelay,   \* second argument given to setInterval
    nextFire,     \* reading of the event loop's millisecond clock from
                  \* which the interval timer is due
    inflight,     \* fetches issued by checkFeatures and not yet settled
    fetchCount,   \* number of calls of checkFeatures so far
    held,         \* the object a caller got from getOptions() or getHeaders()
    mountedAt,    \* history: the instant componentDidMount ran
    lastApplied,  \* history: payload of the most recent successful fetch
    succeeded,    \* history: some fetch has succeeded
    appliedFrom,  \* history: number of the fetch whose response is stored
    last          \* history: the operation that ran last, its arguments, its
                  \* outcome, the list a query searched (seen) and the
                  \* snapshot a successful fetch replaced (old)

vars == <<options, store, now, mounted, timerDelay, nextFire, inflight,
          fetchCount, held, mountedAt, lastApplied, succeeded,
          appliedFrom, last>>

configVars == <<options>>
timerVars == <<mounted, timerDelay, nextFire, fetchCount, mountedAt>>
pollerVars == <<timerVars, inflight>>
storeVars  == <<store, lastApplied, succeeded, appliedFrom>>

----------------------------------------------------------------------------
(* Bounds of the model *)

MaxTime == 3
MaxDate == 2
MaxLen == 2
MaxInterval == 2

----------------------------------------------------------------------------
(* JavaScript values *)

JSUndefined == "<undefined>"

Num(n) == [t |-> "number", k |-> "finite", v |-> n]
NaN == [t |-> "number", k |-> "NaN", v |-> 0]
PosInfinity == [t |-> "number", k |-> "Infinity", v |-> 0]
NegInfinity == [t |-> "number", k |-> "-Infinity", v |-> 0]
NumericString(n) == [t |-> "string", k |-> "numeric", v |-> n]
TextString == [t |-> "string", k |-> "text", v |-> 0]
Absent == [t |-> "undefined", k |-> "undefined", v |-> 0]

\* ToNumber, the coercion isNaN and setInterval apply to their argument
ToNumber(x) ==
    CASE x.t = "number" -> x
      [] x.t = "string" /\ x.k = "numeric" -> Num(x.v)
      [] OTHER -> NaN

IsNaNAlwaysFalse(x) == FALSE

\* the global isNaN of line 77
IsNaN(x) == ToNumber(x).k = "NaN"

\* a property read: obj[key], undefined when obj has no such property
HasOwn(obj, key) == key \in DOMAIN obj

\* { ...a, ...b }
Spread(a, b) ==
    [key \in (DOMAIN a) \cup (DOMAIN b) |->
        IF key \in DOMAIN b THEN b[key] ELSE a[key]]

\* obj[key] = value
Assign(obj, key, value) ==
    [k \in (DOMAIN obj) \cup {key} |-> IF k = key THEN value ELSE obj[k]]

EmptyObject == [key \in {} |-> JSUndefined]

----------------------------------------------------------------------------
(* FoggleConfig *)

DefaultUpdateInterval == 1000 * 60 * 10

HostArgs == {"https://foggle.example", "", JSUndefined}

\* const defaultOptions = { updateInterval, headers: {}, host }
FoggleConfig(host) ==
    [updateInterval |-> Num(DefaultUpdateInterval),
     headers |-> EmptyObject,
     host |-> host]

\* the object defaultOptions.headers names, and a fresh object holding h
LiveHeaders == [live |-> TRUE, headers |-> options.headers]
FreshObject(h) == [live |-> FALSE, headers |-> h]

\* what becomes of a reference when the object defaultOptions.headers names
\* is written in place, and when defaultOptions.headers is given a new object
Written(ref, h) == IF ref.live THEN [ref EXCEPT !.headers = h] ELSE ref
Rebound(ref) == [ref EXCEPT !.live = FALSE]

getHost == options.host
getUpdateInterval == options.updateInterval

getHeadersLive == LiveHeaders

\* { ...defaultOptions.headers }, lines 88-90
getHeaders == FreshObject(Spread(EmptyObject, options.headers))

\* { ...defaultOptions }, lines 49-51: the headers property is copied as it
\* is, a reference to the object defaultOptions.headers names
getOptions ==
    [updateInterval |-> options.updateInterval,
     host |-> options.host,
     headers |-> LiveHeaders]

NothingHeld ==
    [kind |-> "none", updateInterval |-> Absent, host |-> JSUndefined,
     headers |-> FreshObject(EmptyObject)]

\* typeof key, for the identifier key that addHeader never declares
TypeofKey == "undefined"

StringName(s) == [t |-> "string", s |-> s, m |-> EmptyObject]
ObjectName(m) == [t |-> "object", s |-> "", m |-> m]
AbsentName == [t |-> "undefined", s |-> "", m |-> EmptyObject]

\* the property key an assignment obj[name] uses
ToPropertyKey(name) ==
    IF name.t = "string" THEN name.s ELSE "[object Object]"

Note(op, res) ==
    [op |-> op, res |-> res, id |-> "", prov |-> FALSE, arg |-> Absent,
     seen |-> <<>>, old |-> <<>>, n |-> 0, from |-> 0]

SetUpdateIntervalAssignFirst(interval) ==
    /\ options' = [options EXCEPT !.updateInterval = interval]
    /\ last' = [Note("setUpdateInterval",
                     IF IsNaN(interval) THEN "throw" ELSE "ok")
                  EXCEPT !.arg = interval]
    /\ UNCHANGED <<pollerVars, storeVars, now, held>>

\* setUpdateInterval(interval), lines 76-81
SetUpdateInterval(interval) ==
    /\ IF IsNaN(interval)
         THEN /\ options' = options
              /\ last' = [Note("setUpdateInterval", "throw")
                            EXCEPT !.arg = interval]
         ELSE /\ options' = [options EXCEPT !.updateInterval = interval]
              /\ last' = [Note("setUpdateInterval", "ok")
                            EXCEPT !.arg = interval]
    /\ UNCHANGED <<pollerVars, storeVars, now, held>>

\* defaultOptions.headers = h: every reference held elsewhere keeps the
\* object it had
AssignHeaders(h) ==
    /\ options' = [options EXCEPT !.headers = h]
    /\ held' = [held EXCEPT !.headers = Rebound(@)]
    /\ inflight' = [i \in 1..Len(inflight) |->
                       [inflight[i] EXCEPT !.headers = Rebound(@)]]

\* a write into the object defaultOptions.headers names, which then holds h:
\* every reference to that object sees it
WriteHeaders(h) ==
    /\ options' = [options EXCEPT !.headers = h]
    /\ held' = [held EXCEPT !.headers = Written(@, h)]
    /\ inflight' = [i \in 1..Len(inflight) |->
                       [inflight[i] EXCEPT !.headers = Written(@, h)]]

\* addHeader(name = '', value), lines 98-107
AddHeader(nameArg, value) ==
    LET name == IF nameArg.t = "undefined" THEN StringName("") ELSE nameArg
    IN  /\ IF TypeofKey = "object" /\ value = JSUndefined
             THEN AssignHeaders(Spread(options.headers, name.m))
             ELSE WriteHeaders(Assign(options.headers,
                                      ToPropertyKey(name), value))
        /\ last' = [Note("addHeader", "ok")
                      EXCEPT !.id = ToPropertyKey(name)]
        /\ UNCHANGED <<timerVars, storeVars, now>>

ClearHeadersResetsOptions ==
    /\ options' = FoggleConfig(getHost)
    /\ held' = [held EXCEPT !.headers = Rebound(@)]
    /\ inflight' = [i \in 1..Len(inflight) |->
                       [inflight[i] EXCEPT !.headers = Rebound(@)]]
    /\ last' = Note("clearHeaders", "ok")
    /\ UNCHANGED <<timerVars, storeVars, now>>

\* clearHeaders(), lines 112-114
ClearHeaders ==
    /\ AssignHeaders(EmptyObject)
    /\ last' = Note("clearHeaders", "ok")
    /\ UNCHANGED <<timerVars, storeVars, now>>

\* a caller calls getOptions() and keeps the object returned
CallGetOptions ==
    /\ held' = [kind |-> "options",
                updateInterval |-> getOptions.updateInterval,
                host |-> getOptions.host,
                headers |-> getOptions.headers]
    /\ last' = Note("getOptions", "ok")
    /\ UNCHANGED <<options, pollerVars, storeVars, now>>

\* a caller calls getHeaders() and keeps the object returned
CallGetHeaders ==
    /\ held' = [NothingHeld EXCEPT !.kind = "headers", !.headers = getHeaders]
    /\ last' = Note("getHeaders", "ok")
    /\ UNCHANGED <<options, pollerVars, storeVars, now>>

\* the caller writes returned.headers[key] = value into the object it got
\* from getOptions(), or returned[key] = value into the one from getHeaders()
WriteReturnedHeader(key, value) ==
    /\ held.kind # "none"
    /\ IF held.headers.live
         THEN WriteHeaders(Assign(options.headers, key, value))
         ELSE /\ held' = [held EXCEPT
                            !.headers.headers = Assign(@, key, value)]
              /\ UNCHANGED <<options, inflight>>
    /\ last' = [Note("writeReturnedHeader", "ok") EXCEPT !.id = key]
    /\ UNCHANGED <<timerVars, storeVars, now>>

\* the caller writes returned.host and returned.updateInterval of the object
\* it got from getOptions()
WriteReturnedScalars(host, interval) ==
    /\ held.kind = "options"
    /\ held' = [held EXCEPT !.host = host, !.updateInterval = interval]
    /\ last' = Note("writeReturnedScalars", "ok")
    /\ UNCHANGED <<options, pollerVars, storeVars, now>>

----------------------------------------------------------------------------
(* The store slice and the fetch, modelled from the specification *)

Ids == {"a", "b"}
QueryIds == Ids \cup {"c"}

Features ==
    [id : Ids, manually_activated : BOOLEAN, release_date : 1..MaxDate]

SeqsUpTo(S, n) == UNION {[1..k -> S] : k \in 0..n}

Snapshots == SeqsUpTo(Features, MaxLen)

\* the state the reducer starts from
InitialState == [features |-> [enabledFeatures |-> <<>>]]

\* FlagStore.replace: the fetched list takes the place of the stored one
Reducer(state, payload) ==
    [state EXCEPT !.features = [enabledFeatures |-> payload]]

\* FlagStore.current
Current == store.features.enabledFeatures

RemoveAt(s, i) == [j \in 1..(Len(s) - 1) |-> IF j < i THEN s[j] ELSE s[j + 1]]

\* checkFeatures(host, headers): one call of the network collaborator
CheckFeatures(host, headers) ==
    /\ inflight' = Append(inflight,
                          [n |-> fetchCount + 1, host |-> host,
                           headers |-> headers, sent |-> headers.headers])
    /\ fetchCount' = fetchCount + 1

\* the fetch in flight at position i succeeds with payload
FetchSuccess(i, payload) ==
    /\ i \in 1..Len(inflight)
    /\ store' = Reducer(store, payload)
    /\ lastApplied' = payload
    /\ succeeded' = TRUE
    /\ appliedFrom' = inflight[i].n
    /\ inflight' = RemoveAt(inflight, i)
    /\ last' = [Note("fetchSuccess", "ok")
                  EXCEPT !.old = Current, !.n = inflight[i].n,
                         !.from = appliedFrom]
    /\ UNCHANGED <<options, now, timerVars, held>>

FetchFailureClearsStore(i) ==
    /\ i \in 1..Len(inflight)
    /\ inflight' = RemoveAt(inflight, i)
    /\ store' = InitialState
    /\ last' = [Note("fetchFailure", "ok") EXCEPT !.n = inflight[i].n]
    /\ UNCHANGED <<options, now, timerVars, held, lastApplied, succeeded,
                   appliedFrom>>

\* the fetch in flight at position i fails: the tick is absorbed
FetchFailure(i) ==
    /\ i \in 1..Len(inflight)
    /\ inflight' = RemoveAt(inflight, i)
    /\ last' = [Note("fetchFailure", "ok") EXCEPT !.n = inflight[i].n]
    /\ UNCHANGED <<options, now, timerVars, held, storeVars>>

----------------------------------------------------------------------------
(* The provider and the query surfaces *)

\* the default value of React.createContext, lines 10-12
DefaultContext == [enabledFeatures |-> <<>>]

MapStateToPropsInitial(state) == [features |-> [enabledFeatures |-> <<>>]]

\* mapStateToProps of FoggleContainer, line 155
MapStateToProps(state) == [features |-> state.features]

ProviderValueFirstOnly(props) ==
    [features |->
        [enabledFeatures |->
            SubSeq(props.features.enabledFeatures, 1,
                   IF Len(props.features.enabledFeatures) > 0 THEN 1 ELSE 0)]]

\* the value _FoggleProvider.render gives its ContextProvider, line 139
ProviderValue(props) == [features |-> props.features]

ContextValueActiveOnly(inProvider) ==
    IF inProvider
      THEN [features |->
              [enabledFeatures |->
                 SelectSeq(store.features.enabledFeatures,
                           LAMBDA r : r.manually_activated
                                        \/ r.release_date < now)]]
      ELSE DefaultContext

\* what a Consumer receives: the nearest provider's value, or the default
\* value when it is rendered outside every FoggleProvider
ContextValue(inProvider) ==
    IF inProvider THEN ProviderValue(MapStateToProps(store))
                  ELSE DefaultContext

IsBeforeOrEqual(date, dateToCompare) == date <= dateToCompare

IsBeforeSwapped(date, dateToCompare) == dateToCompare < date

\* date-fns isBefore on two valid dates: getTime() < getTime()
IsBefore(date, dateToCompare) == date < dateToCompare

\* Array.prototype.find by id: the index of the first match, 0 for none
FindIndex(list, id) ==
    IF \E i \in 1..Len(list) : list[i].id = id
      THEN CHOOSE i \in 1..Len(list) :
               /\ list[i].id = id
               /\ \A j \in 1..(i - 1) : list[j].id # id
      ELSE 0

\* the render function FoggleConsumer gives its Consumer, lines 208-214
ConsumerChild(value, id, date) ==
    IF ~HasOwn(value, "features") THEN "TypeError"
    ELSE IF ~HasOwn(value.features, "enabledFeatures") THEN "TypeError"
    ELSE LET list == value.features.enabledFeatures
             found == FindIndex(list, id)
         IN  IF found # 0
               THEN IF list[found].manually_activated
                         \/ IsBefore(list[found].release_date, date)
                      THEN "children" ELSE "null"
               ELSE "null"

\* the render function FoggyComponent gives its Consumer, lines 249-257
FoggyChild(value, featureId, date) ==
    IF ~HasOwn(value, "features") THEN "TypeError"
    ELSE IF ~HasOwn(value.features, "enabledFeatures") THEN "TypeError"
    ELSE LET list == value.features.enabledFeatures
             found == FindIndex(list, featureId)
         IN  IF found # 0
               THEN IF list[found].manually_activated
                         \/ IsBefore(list[found].release_date, date)
                      THEN "Component" ELSE "null"
               ELSE "null"

\* the list the render functions search: value.features.enabledFeatures
Searched(value) ==
    IF HasOwn(value, "features") /\ HasOwn(value.features, "enabledFeatures")
      THEN value.features.enabledFeatures
      ELSE <<>>

\* FoggleConsumer.render with property id, lines 201-219
FoggleConsumerRender(id, inProvider) ==
    /\ last' = [Note("FoggleConsumer",
                     ConsumerChild(ContextValue(inProvider), id, now))
                  EXCEPT !.id = id, !.prov = inProvider,
                         !.seen = Searched(ContextValue(inProvider))]
    /\ UNCHANGED <<options, pollerVars, storeVars, now, held>>

\* FoggyComponent.render of withFoggle(Component, featureId), lines 245-262
FoggyComponentRender(featureId, inProvider) ==
    /\ last' = [Note("withFoggle",
                     FoggyChild(ContextValue(inProvider), featureId, now))
                  EXCEPT !.id = featureId, !.prov = inProvider,
                         !.seen = Searched(ContextValue(inProvider))]
    /\ UNCHANGED <<options, pollerVars, storeVars, now, held>>

----------------------------------------------------------------------------
(* The poller: _FoggleProvider.componentDidMount, lines 125-132 *)

\* the period in milliseconds of setInterval(f, delay): the delay as a
\* number, and 1 when that is not a number from 1 to 2^31 - 1 (NaN, an
\* infinity, less than 1 or too large)
TimerPeriod(delay) ==
    LET n == ToNumber(delay)
    IN  IF n.k = "finite" /\ n.v >= 1 /\ n.v <= 2147483647 THEN n.v ELSE 1

\* the readings of the event loop's millisecond clock that the timer can be
\* given while new Date() reads now. It is another clock than the latter, so
\* within one millisecond it reads the same number or, having ticked
\* already, the next one; and the timer is given the reading the event loop
\* took when its present turn began, which is as old as the thread has been
\* busy since
LoopClock == 0..(now + 1)

UpdateCancelsEarlier ==
    /\ inflight' = <<[n |-> fetchCount + 1, host |-> getHost,
                      headers |-> getHeaders, sent |-> getHeaders.headers]>>
    /\ fetchCount' = fetchCount + 1

\* function update(), lines 127-130
Update == CheckFeatures(getHost, getHeaders)

ComponentDidMountNoFirstCall ==
    /\ ~mounted
    /\ mounted' = TRUE
    /\ timerDelay' = getUpdateInterval
    /\ \E start \in LoopClock :
           nextFire' = start + TimerPeriod(getUpdateInterval)
    /\ mountedAt' = now
    /\ last' = Note("componentDidMount", "ok")
    /\ UNCHANGED <<options, storeVars, now, inflight, fetchCount, held>>

\* update is called once while the arguments of setInterval are evaluated,
\* then the delay is read and the function update returned is scheduled; the
\* timer is armed from the event loop's clock as the loop last read it
ComponentDidMount ==
    /\ ~mounted
    /\ Update
    /\ mounted' = TRUE
    /\ timerDelay' = getUpdateInterval
    /\ \E start \in LoopClock :
           nextFire' = start + TimerPeriod(getUpdateInterval)
    /\ mountedAt' = now
    /\ last' = Note("componentDidMount", "ok")
    /\ UNCHANGED <<options, storeVars, now, held>>

TimerFireOnce ==
    /\ mounted
    /\ fetchCount < 2
    /\ Update
    /\ \E reading \in LoopClock :
           /\ reading >= nextFire
           /\ nextFire' = reading + TimerPeriod(timerDelay)
    /\ last' = Note("timer", "ok")
    /\ UNCHANGED <<options, storeVars, now, mounted, timerDelay, mountedAt,
                   held>>

\* a turn of the event loop reads the loop's clock, finds the interval timer
\* due and runs update: at the reading the timer is due from or, the thread
\* having been busy, at a later one; the timer is armed again from the
\* reading the loop holds when update is about to run, which is at least the
\* one the timer was due from and can be older than new Date() reads, and
\* the ticks that fell due in the meantime are not made up
TimerFire ==
    /\ mounted
    /\ Update
    /\ \E reading \in LoopClock :
           /\ reading >= nextFire
           /\ nextFire' = reading + TimerPeriod(timerDelay)
    /\ last' = Note("timer", "ok")
    /\ UNCHANGED <<options, storeVars, now, mounted, timerDelay, mountedAt,
                   held>>

\* a millisecond passes on the clock new Date() reads, whether or not a
\* timer is due
Advance ==
    /\ now < MaxTime
    /\ now' = now + 1
    /\ last' = Note("advance", "ok")
    /\ UNCHANGED <<options, storeVars, pollerVars, held>>

----------------------------------------------------------------------------
(* Specifications *)

IntervalArgs ==
    {Num(n) : n \in 1..MaxInterval}
        \cup {NaN, PosInfinity, NegInfinity, TextString, Absent}
        \cup {NumericString(n) : n \in 1..MaxInterval}

HeaderNames == {"X", "Y"}
HeaderValues == {"1", "2"}
HeaderMaps ==
    UNION {[D -> HeaderValues] : D \in (SUBSET HeaderNames) \ {{}}}

\* the state once FoggleConfig(host) and the FoggleProvider are constructed
Constructed(host) ==
    /\ options = FoggleConfig(host)
    /\ store = InitialState
    /\ now = 0
    /\ mounted = FALSE
    /\ timerDelay = Absent
    /\ nextFire = 0
    /\ inflight = <<>>
    /\ fetchCount = 0
    /\ held = NothingHeld
    /\ mountedAt = 0
    /\ lastApplied = <<>>
    /\ succeeded = FALSE
    /\ appliedFrom = 0
    /\ last = Note("FoggleConfig", "ok")

Init == Constructed("https://foggle.example")

\* the poller, the store and the queries, with the one configuration call
\* whose result the poller reads when it schedules: setUpdateInterval
\* the responses the server gives while the poller runs: nothing, the first
\* record, both records
PollPayloads ==
    {<<>>,
     <<[id |-> "a", manually_activated |-> FALSE, release_date |-> 1]>>,
     <<[id |-> "a", manually_activated |-> FALSE, release_date |-> 1],
       [id |-> "b", manually_activated |-> TRUE, release_date |-> MaxDate]>>}

PollIntervalArgs == {Num(n) : n \in 1..MaxInterval} \cup {PosInfinity}

\* the ids queried while the poller runs: one that fetched records carry and
\* one that none carries
PollQueryIds == {"a", "c"}

Next ==
    \/ SetUpdateInterval(Num(1))
    \/ ComponentDidMount
    \/ TimerFire
    \/ Advance
    \/ \E i \in 1..Len(inflight), payload \in PollPayloads :
           FetchSuccess(i, payload)
    \/ \E i \in 1..Len(inflight) : FetchFailure(i)
    \/ \E id \in PollQueryIds, inProvider \in BOOLEAN :
           FoggleConsumerRender(id, inProvider)
    \/ \E id \in PollQueryIds, inProvider \in BOOLEAN :
           FoggyComponentRender(id, inProvider)

Spec == Init /\ [][Next]_vars

\* the configuration object alone, with every shape of argument
InitConfig == \E host \in HostArgs : Constructed(host)

NextConfig ==
    \/ \E interval \in IntervalArgs : SetUpdateInterval(interval)
    \/ \E name \in HeaderNames, value \in HeaderValues :
           AddHeader(StringName(name), value)
    \/ \E m \in HeaderMaps : AddHeader(ObjectName(m), JSUndefined)
    \/ ClearHeaders

SpecConfig == InitConfig /\ [][NextConfig]_vars

\* the queries alone, over every snapshot a fetch can have stored
\* the first fetch of a provider mounted at instant 0 has stored payload
Fetched(payload, t) ==
    /\ options = FoggleConfig("https://foggle.example")
    /\ store = Reducer(InitialState, payload)
    /\ lastApplied = payload
    /\ succeeded = TRUE
    /\ appliedFrom = 1
    /\ now = t
    /\ mounted = TRUE
    /\ timerDelay = Num(DefaultUpdateInterval)
    /\ nextFire = DefaultUpdateInterval
    /\ inflight = <<>>
    /\ fetchCount = 1
    /\ held = NothingHeld
    /\ mountedAt = 0
    /\ last = [Note("fetchSuccess", "ok") EXCEPT !.n = 1]

InitQuery ==
    \/ Constructed("https://foggle.example")
    \/ \E payload \in Snapshots, t \in 0..MaxTime : Fetched(payload, t)

NextQuery ==
    \/ Advance
    \/ \E id \in QueryIds, inProvider \in BOOLEAN :
           FoggleConsumerRender(id, inProvider)
    \/ \E id \in QueryIds, inProvider \in BOOLEAN :
           FoggyComponentRender(id, inProvider)

SpecQuery == InitQuery /\ [][NextQuery]_vars

\* the configuration object and a caller that keeps and writes what the
\* accessors return
NextCopy ==
    \/ \E interval \in PollIntervalArgs : SetUpdateInterval(interval)
    \/ AddHeader(StringName("X"), "1")
    \/ ClearHeaders
    \/ CallGetOptions
    \/ CallGetHeaders
    \/ WriteReturnedHeader("Z", "9")
    \/ WriteReturnedScalars("https://other.example", Num(MaxInterval + 1))

SpecCopy == Init /\ [][NextCopy]_vars

\* the poller with the header operations between its ticks
NextPoll ==
    \/ SetUpdateInterval(Num(1))
    \/ AddHeader(StringName("X"), "1")
    \/ ClearHeaders
    \/ ComponentDidMount
    \/ TimerFire
    \/ Advance
    \/ \E i \in 1..Len(inflight) : FetchSuccess(i, <<>>)
    \/ \E i \in 1..Len(inflight) : FetchFailure(i)

SpecPoll == Init /\ [][NextPoll]_vars

\* the poller alone, with every interval
NextTimer ==
    \/ \E interval \in PollIntervalArgs : SetUpdateInterval(interval)
    \/ ComponentDidMount
    \/ TimerFire
    \/ Advance
    \/ \E i \in 1..Len(inflight) : FetchSuccess(i, <<>>)
    \/ \E i \in 1..Len(inflight) : FetchFailure(i)

SpecTimer == Init /\ [][NextTimer]_vars

\* the intervals of the running poller: the shortest one, and the one the
\* timer does not take as it is
LiveIntervalArgs == {Num(1), PosInfinity}

\* the poller alone; the event loop keeps running the timer's callback when
\* it is due and time keeps passing
NextLive ==
    \/ \E interval \in LiveIntervalArgs : SetUpdateInterval(interval)
    \/ ComponentDidMount
    \/ TimerFire
    \/ Advance
    \/ \E i \in 1..Len(inflight) : FetchSuccess(i, <<>>)
    \/ \E i \in 1..Len(inflight) : FetchFailure(i)

SpecLive ==
    Init /\ [][NextLive]_vars /\ WF_vars(TimerFire) /\ WF_vars(Advance)

----------------------------------------------------------------------------
(* Claims *)

IsQuery == last.op \in {"FoggleConsumer", "withFoggle"}
Shown == last.res \in {"children", "Component"}

\* the record Array.prototype.find returns for id: the first one with that id
IsFirstMatch(list, i, id) ==
    /\ i \in 1..Len(list)
    /\ list[i].id = id
    /\ \A j \in 1..(i - 1) : list[j].id # id

\* C1: whenever FoggleConsumer or withFoggle has just rendered inside the
\* provider and a record with the queried id is in the snapshot, the wrapped
\* content is shown if and only if the first such record is manually
\* activated or its release_date is strictly before now; a record that is not
\* manually activated and whose release_date equals now is not shown.
C1_ActivationDecision ==
    (IsQuery /\ last.prov) =>
        \A i \in 1..Len(Current) :
            IsFirstMatch(Current, i, last.id) =>
                /\ Shown <=> (Current[i].manually_activated = TRUE
                                \/ Current[i].release_date < now)
                /\ (~Current[i].manually_activated
                      /\ Current[i].release_date = now) => last.res = "null"

C1_Witness ==
    /\ last.op = "FoggleConsumer"
    /\ last.prov
    /\ last.res = "null"
    /\ \E i \in 1..Len(Current) :
           /\ IsFirstMatch(Current, i, last.id)
           /\ ~Current[i].manually_activated
           /\ Current[i].release_date = now

\* the list a query inside the provider searches
Visible == Searched(ContextValue(TRUE))

\* C2: the store, and what the provider hands to queries, always is the
\* payload of the most recent successful fetch (the empty list before the
\* first); a step that settles a fetch as failed leaves the store as it was
\* and changes the outcome of no query, so the failure is surfaced to none.
C2_FailedTickKeepsSnapshot ==
    /\ [](Current = lastApplied /\ Visible = lastApplied)
    /\ [][last'.op = "fetchFailure" =>
            /\ store' = store
            /\ \A id \in QueryIds, p \in BOOLEAN :
                 /\ ConsumerChild(ContextValue(p), id, now)'
                      = ConsumerChild(ContextValue(p), id, now)
                 /\ FoggyChild(ContextValue(p), id, now)'
                      = FoggyChild(ContextValue(p), id, now)]_vars

C2_Witness ==
    /\ last.op = "fetchFailure"
    /\ succeeded
    /\ fetchCount >= 2
    /\ Current # <<>>

\* C3 (as claimed): while no fetch has succeeded the current snapshot is the
\* empty sequence and every query, whichever id it asks for, answers
\* "not active".
C3_EmptyBeforeFirstSuccess ==
    ~succeeded =>
        /\ Current = <<>>
        /\ IsQuery => last.res = "null"

\* C4 (as claimed): no query ends in an error, and a query for an id that no
\* record of the current snapshot carries answers "not active".
C4_QueryNeverErrors ==
    IsQuery =>
        /\ last.res # "TypeError"
        /\ (\A i \in 1..Len(Current) : Current[i].id # last.id)
              => last.res = "null"

\* C5 (as claimed): mounting triggers exactly one fetch at once, with the
\* timer given the interval read then, and afterwards no tick is skipped: a
\* tick may run late, but whenever none is outstanding (the timer is not due)
\* one fetch has been triggered for every whole interval, of the length read
\* at the mount, elapsed since the mount.
C5_FetchPerInterval ==
    /\ last.op = "componentDidMount" =>
          /\ fetchCount = 1
          /\ timerDelay = getUpdateInterval
    /\ (mounted /\ timerDelay.k = "finite" /\ nextFire > now + 1) =>
          fetchCount >= 1 + (now - mountedAt) \div timerDelay.v

\* C5 (amended): mounting triggers exactly one fetch at once, before any
\* interval has elapsed, and schedules the timer with the interval read
\* then; afterwards every tick of that timer triggers exactly one fetch and
\* nothing else triggers one, so the first fetch is never duplicated. Ticks
\* are not made up: after a late tick the fetches can be fewer than one per
\* elapsed interval.
C5_FetchPerTick ==
    /\ [][/\ last'.op \in {"componentDidMount", "timer"} =>
                 fetchCount' = fetchCount + 1
          /\ last'.op \notin {"componentDidMount", "timer"} =>
                 fetchCount' = fetchCount]_vars
    /\ [](/\ last.op = "componentDidMount" =>
                 /\ fetchCount = 1
                 /\ now = mountedAt
                 /\ timerDelay = getUpdateInterval
          /\ mounted => fetchCount >= 1)

\* a tick that ran late: two whole intervals have elapsed, one tick has run
\* and the timer is not due
C5_Witness ==
    /\ last.op = "timer"
    /\ fetchCount = 2
    /\ timerDelay = Num(1)
    /\ now - mountedAt >= 2
    /\ nextFire > now + 1

\* C6: a query inside the provider searches exactly the payload of the most
\* recently applied successful fetch, whole: the old snapshot until a result
\* is applied, the new one from then on, never part of one or a mixture.
C6_QuerySeesWholeSnapshot ==
    (IsQuery /\ last.prov) => last.seen = lastApplied

C6_Witness ==
    /\ IsQuery
    /\ last.prov
    /\ succeeded
    /\ Len(last.seen) >= 2
    /\ inflight # <<>>

\* C7: once a successful fetch has been applied the store holds the fetched
\* list and nothing else, which is also what the provider receives; a record
\* of the replaced snapshot is in the store afterwards only if it is in the
\* fetched list.
C7_SuccessReplacesSnapshot ==
    last.op = "fetchSuccess" =>
        /\ store = [features |-> [enabledFeatures |-> lastApplied]]
        /\ MapStateToProps(store).features.enabledFeatures = lastApplied
        /\ \A k \in 1..Len(last.old) :
              (\E j \in 1..Len(Current) : Current[j] = last.old[k])
                  => \E j \in 1..Len(lastApplied) :
                         lastApplied[j] = last.old[k]

C7_Witness ==
    /\ last.op = "fetchSuccess"
    /\ Len(last.old) = 2
    /\ Len(Current) = 1
    /\ \E k \in 1..2 : \A j \in 1..Len(Current) : Current[j] # last.old[k]

\* an object literal with the given own properties
HeaderX1 == [key \in {"X"} |-> "1"]
HeaderY2 == [key \in {"Y"} |-> "2"]
HeaderX1Y2 == [key \in {"X", "Y"} |-> IF key = "X" THEN "1" ELSE "2"]

\* C8 (as claimed): from empty headers addHeader("X","1") gives {X:"1"},
\* from there addHeader({"Y":"2"}) gives {X:"1", Y:"2"}, and clearHeaders()
\* gives {}; addHeader with a single mapping argument merges every entry of
\* the mapping into the headers, the mapping's value winning on a collision.
C8_AddHeaderMerges ==
    [][/\ (options.headers = EmptyObject /\ AddHeader(StringName("X"), "1"))
            => options'.headers = HeaderX1
       /\ (options.headers = HeaderX1
             /\ AddHeader(ObjectName(HeaderY2), JSUndefined))
            => options'.headers = HeaderX1Y2
       /\ ClearHeaders => options'.headers = EmptyObject
       /\ \A m \in HeaderMaps :
            AddHeader(ObjectName(m), JSUndefined) =>
                /\ DOMAIN options'.headers
                     = (DOMAIN options.headers) \cup (DOMAIN m)
                /\ \A key \in DOMAIN options'.headers :
                     options'.headers[key]
                       = IF key \in DOMAIN m THEN m[key]
                                             ELSE options.headers[key]
      ]_vars

\* C9: a step setUpdateInterval(NaN) throws and leaves the whole option
\* set, the update interval, the headers and the host, as it was.
C9_NaNRejected ==
    [][SetUpdateInterval(NaN) =>
          /\ last'.res = "throw"
          /\ getUpdateInterval' = getUpdateInterval
          /\ options'.headers = options.headers
          /\ getHost' = getHost]_vars

C9_Witness ==
    /\ last.op = "setUpdateInterval"
    /\ last.arg = NaN
    /\ last.res = "throw"
    /\ getUpdateInterval = Num(MaxInterval)
    /\ options.headers # EmptyObject

IsFiniteNumber(x) == x.t = "number" /\ x.k = "finite"

\* C10 (as claimed): setUpdateInterval(n) succeeds exactly when n is a
\* finite number, and then the interval is n.
C10_OnlyFiniteNumbers ==
    last.op = "setUpdateInterval" =>
        /\ last.res = "ok" <=> IsFiniteNumber(last.arg)
        /\ last.res = "ok" => getUpdateInterval = last.arg

\* a host that console.assert(host, ...) reports: empty or absent
IsFalsyHost(host) == host \in {"", JSUndefined}

\* C11 (as claimed): FoggleConfig with an empty or absent host produces no
\* configuration object, so no state has a config whose host is empty or
\* absent.
C11_HostRequired ==
    last.op = "FoggleConfig" => ~IsFalsyHost(getHost)

IsCallerWrite == last.op \in {"writeReturnedHeader", "writeReturnedScalars"}

\* C12 (as claimed): a write by the caller into an object that getOptions()
\* or getHeaders() returned, the headers mapping inside the object of
\* getOptions() included, changes nothing that getOptions(), getHeaders(),
\* getHost() and getUpdateInterval() return afterwards.
C12_DefensiveCopies ==
    [][IsCallerWrite' =>
          /\ getHost' = getHost
          /\ getUpdateInterval' = getUpdateInterval
          /\ getHeaders'.headers = getHeaders.headers
          /\ getOptions'.headers.headers = getOptions.headers.headers]_vars

\* the activation decision of lines 211 and 253 for one record at the
\* present time
ActiveNow(record) ==
    record.manually_activated \/ IsBefore(record.release_date, now)

\* C13 (as claimed): the list the provider exposes holds only records whose
\* activation decision is true now; a record that is not manually activated
\* and whose release_date is not before now is never in it.
C13_OnlyActiveExposed ==
    \A i \in 1..Len(Visible) : ActiveNow(Visible[i])

\* C13 (amended): the list the provider exposes is the whole current
\* snapshot, records that are not active now included; the activation decision
\* is taken per queried id when a query renders, so a query for the id of a
\* record that is not active finds that record in the list and shows nothing.
C13_WholeSnapshotExposed ==
    /\ Visible = Current
    /\ (IsQuery /\ last.prov) =>
          /\ last.seen = Current
          /\ \A i \in 1..Len(last.seen) :
                (IsFirstMatch(last.seen, i, last.id)
                   /\ ~ActiveNow(last.seen[i])) => last.res = "null"

C13_Witness ==
    /\ last.op = "withFoggle"
    /\ last.prov
    /\ last.res = "null"
    /\ Len(Visible) = MaxLen
    /\ \E i \in 1..Len(Visible) :
           /\ IsFirstMatch(Visible, i, last.id)
           /\ ~Visible[i].manually_activated
           /\ Visible[i].release_date > now
    /\ \E j \in 1..Len(Visible) : ActiveNow(Visible[j])

\* the poller has issued n fetches and its timer is due within the time the
\* clock of the model reaches
TickDue(n) ==
    /\ mounted
    /\ fetchCount = n
    /\ nextFire <= MaxTime + 1

\* C14: the started poller never stops. It stays started with its timer set,
\* and in every state (nothing in flight, any number of fetches in flight,
\* after a success, after one or several failures) the timer's callback can
\* run as soon as the event loop's clock has reached the time the timer is
\* due; given that the callback runs when it can and that time passes,
\* another fetch is then eventually issued.
C14_PollerNeverStops ==
    /\ [][mounted => mounted']_vars
    /\ [](mounted => (ENABLED TimerFire <=> nextFire <= now + 1))
    /\ \A n \in 1..(MaxTime + 2) : [](TickDue(n) => <>(fetchCount > n))

\* every fetch so far has failed, two more are in flight, and the timer is due
C14_Witness ==
    /\ last.op = "fetchFailure"
    /\ ~succeeded
    /\ Len(inflight) = 2
    /\ fetchCount >= 3
    /\ TickDue(fetchCount)

\* C15: a tick leaves every fetch in flight as it is and adds its own, also
\* when fetches are in flight; a success stores its response whatever the
\* order of issue, so the store always holds the response applied last.
C15_TicksOverlap ==
    /\ [][last'.op \in {"timer", "componentDidMount"} =>
             /\ fetchCount' = fetchCount + 1
             /\ Len(inflight') = Len(inflight) + 1
             /\ \A i \in 1..Len(inflight) : inflight'[i].n = inflight[i].n
             /\ inflight'[Len(inflight')].n = fetchCount']_vars
    /\ [](last.op = "fetchSuccess" =>
             /\ appliedFrom = last.n
             /\ Current = lastApplied)

\* the response of an earlier-issued fetch is stored over the response of a
\* later-issued one
C15_Witness ==
    /\ last.op = "fetchSuccess"
    /\ last.from > last.n
    /\ appliedFrom = last.n
    /\ Current = lastApplied
    /\ Current # last.old

\* C16 (as claimed): a setUpdateInterval call leaves the running timer as it
\* is and getUpdateInterval() returns its argument; the timer's delay is the
\* interval getUpdateInterval() returned at the start and never changes; and
\* every tick comes at that interval: the timer is armed anew one such
\* interval after its tick, so that an infinite interval gives no tick.
C16_RunningTimerKeepsInterval ==
    /\ [][/\ last'.op = "setUpdateInterval" =>
                 /\ timerDelay' = timerDelay
                 /\ nextFire' = nextFire
                 /\ fetchCount' = fetchCount
          /\ last'.op = "componentDidMount" =>
                 timerDelay' = getUpdateInterval
          /\ mounted => timerDelay' = timerDelay
          /\ last'.op = "timer" =>
                 /\ ToNumber(timerDelay).k = "finite"
                 /\ \E reading \in LoopClock :
                        /\ reading >= nextFire
                        /\ nextFire' = reading + ToNumber(timerDelay).v]_vars
    /\ []((last.op = "setUpdateInterval" /\ last.res = "ok") =>
                 getUpdateInterval = last.arg)

\* C17: the fetch a tick issues, the first one at the start included, is
\* given the config's host and the headers as they are when the tick runs;
\* whatever is done to the headers afterwards, every fetch in flight keeps the
\* headers it was issued with.
C17_TickUsesHeadersOfItsMoment ==
    /\ [][last'.op \in {"timer", "componentDidMount"} =>
             /\ inflight'[Len(inflight')].host = getHost
             /\ inflight'[Len(inflight')].sent = options.headers
             /\ inflight'[Len(inflight')].headers.headers = options.headers]_vars
    /\ [](\A i \in 1..Len(inflight) :
             /\ inflight[i].host = getHost
             /\ inflight[i].headers.headers = inflight[i].sent)

\* two fetches in flight, issued before and after addHeader, and the headers
\* cleared since
C17_Witness ==
    /\ last.op = "clearHeaders"
    /\ Len(inflight) = 2
    /\ inflight[1].headers.headers = EmptyObject
    /\ inflight[2].headers.headers = HeaderX1
    /\ getHeaders.headers = EmptyObject

\* what a query inside the provider reports for id at the present time
ReportsActive(id) ==
    /\ ConsumerChild(ContextValue(TRUE), id, now) = "children"
    /\ FoggyChild(ContextValue(TRUE), id, now) = "Component"

\* the record a query for id decides on is released in the step: its
\* release_date is not before now and is before the time after the step
ReleasedInStep(id) ==
    \E i \in 1..Len(Current) :
        /\ IsFirstMatch(Current, i, id)
        /\ ~Current[i].manually_activated
        /\ now <= Current[i].release_date
        /\ Current[i].release_date < now'

\* C18: over a step that leaves the store as it is and does not move time
\* back, an id reported active stays reported active, and an id not reported
\* active becomes reported active only by now passing the release_date of
\* the record the query decides on.
C18_ActivationMonotone ==
    [][(store' = store /\ now' >= now) =>
          \A id \in QueryIds :
              /\ ReportsActive(id) => ReportsActive(id)'
              /\ (~ReportsActive(id) /\ ReportsActive(id)') =>
                     ReleasedInStep(id)]_vars

\* a query reports a record active that was released by the passing of time
C18_Witness ==
    /\ last.op = "FoggleConsumer"
    /\ last.prov
    /\ last.res = "children"
    /\ ReportsActive(last.id)
    /\ now = MaxTime
    /\ \E i \in 1..Len(Current) :
           /\ IsFirstMatch(Current, i, last.id)
           /\ ~Current[i].manually_activated
           /\ Current[i].release_date = MaxDate

IsConfigOp == last.op \in {"setUpdateInterval", "addHeader", "clearHeaders"}

\* every header but the one named key is after the step what it was before
OtherHeadersKept(key) ==
    /\ DOMAIN options'.headers \subseteq DOMAIN options.headers \cup {key}
    /\ \A k \in DOMAIN options.headers \ {key} :
           /\ k \in DOMAIN options'.headers
           /\ options'.headers[k] = options.headers[k]

\* C19: no step changes the host; setUpdateInterval, whether it returns or
\* throws, leaves the headers as they are; addHeader and clearHeaders leave
\* the update interval as it is; addHeader leaves every header but the one it
\* names as it is; and no config operation changes the store.
C19_ConfigFrame ==
    [][/\ getHost' = getHost
       /\ last'.op = "setUpdateInterval" =>
              getHeaders'.headers = getHeaders.headers
       /\ last'.op \in {"addHeader", "clearHeaders"} =>
              getUpdateInterval' = getUpdateInterval
       /\ last'.op = "addHeader" => OtherHeadersKept(last'.id)
       /\ IsConfigOp' => store' = store]_vars

\* addHeader("Y", ...) on a config that holds header X and an interval set
\* by the application
C19_Witness ==
    /\ last.op = "addHeader"
    /\ last.id = "Y"
    /\ HasOwn(getHeaders.headers, "X")
    /\ HasOwn(getHeaders.headers, "Y")
    /\ getHeaders.headers["X"] = "1"
    /\ getUpdateInterval = Num(1)

====
